---- MODULE Spec2Model ----
(***************************************************************************)
(* Solace mental health companion (src/mental_health_companion.py):        *)
(* the SolaceApp session state, its UI handlers, the worker threads        *)
(* running _stream_response and _run_breathing, and the Tk callback queue  *)
(* (root.after) that carries their UI updates back to the UI thread.       *)
(*                                                                         *)
(* Text is modelled as a sequence of chunks; a chunk is either a run of    *)
(* whitespace (" ", "\n") or a run of other characters, so that            *)
(* str.strip() is the removal of leading and trailing whitespace chunks.   *)
(***************************************************************************)
EXTENDS Integers, Sequences, FiniteSets, TLC

\* ------------------------------------------------------------------ bounds

\* Worker threads running _stream_response that one run starts.
MaxThreads == 2

\* Worker threads running _run_breathing that one run starts.
MaxBreathThreads == 2

\* The same two, in the runs where requests, breathing sessions and connect
\* requests interleave.
StoreThreads == 1
StoreBreaths == 1

\* Breathing frames a worker may have pending in the Tk queue.
MaxPending == 1

\* range(4) in the source: cycles of one breathing session, scaled down.
NumCycles == 1

\* steps = 30 in the source: a phase posts ticks i = 0 .. steps, scaled down.
steps == 1

\* --------------------------------------------------------------- constants

SYSTEM_PROMPT == <<"You are Solace, a warm and empathetic mental health companion.">>

PLACEHOLDER == <<"Share what's on your mind...">>

HARDCODED_KEY == <<"sk-or-v1-80da1ec6">>

Providers == {"OpenAI", "OpenRouter"}

\* ------------------------------------------------------------ environment

\* Keys the environment or the user can supply; the provider accepts GoodKey.
GoodKey == <<"good-key">>
BadKey == <<"bad-key">>
EnvKeys == {<<>>, GoodKey}
KeyInputs == {<<>>, <<" ">>, GoodKey, BadKey}
ValidKey(k) == k = GoodKey

\* What the user can have in the input box when a send is requested.
Inputs == {<<>>, <<" ">>, <<" ", "hi", "\n">>, PLACEHOLDER}

\* A transport failure of requests.get / requests.post (an exception).
TransportError == 0

\* Status of GET /models with the given bearer key; the validity of the
\* key hardcoded in the source is not known to the program.
HealthResponses(k) ==
    IF k = HARDCODED_KEY THEN {200, 401, TransportError}
    ELSE IF ValidKey(k) THEN {200, 503, TransportError}
    ELSE {401, TransportError}

\* Responses of POST /chat/completions: status and JSON body; a body either
\* has choices[0].message.content or lacks that path.
ApiResponses(k) ==
    IF ValidKey(k)
    THEN {[status |-> 200, has_content |-> TRUE, content |-> <<"I hear you.", " ">>],
          [status |-> 200, has_content |-> FALSE, content |-> <<>>],
          [status |-> 500, has_content |-> FALSE, content |-> <<>>],
          [status |-> TransportError, has_content |-> FALSE, content |-> <<>>]}
    ELSE {[status |-> 401, has_content |-> FALSE, content |-> <<>>],
          [status |-> TransportError, has_content |-> FALSE, content |-> <<>>]}

\* ------------------------------------------------------------------- text

\* Mutant of IsSpace: a blank is not whitespace.
IsSpace_noblank(c) == c \in {"\n", "\t"}

\* str.isspace() of a chunk
IsSpace(c) == c \in {" ", "\n", "\t"}

RECURSIVE LStrip(_)
LStrip(s) == IF s # <<>> /\ IsSpace(Head(s)) THEN LStrip(Tail(s)) ELSE s

RECURSIVE RStrip(_)
RStrip(s) ==
    IF s # <<>> /\ IsSpace(s[Len(s)]) THEN RStrip(SubSeq(s, 1, Len(s) - 1)) ELSE s

\* str.strip()
Strip(s) == RStrip(LStrip(s))

\* ------------------------------------------------------------------ state

VARIABLES
    openai_api_key,        \* self.openai_api_key
    openrouter_api_key,    \* self.openrouter_api_key
    api_provider,          \* self.api_provider (= provider_var)
    api_key,               \* self.api_key
    key_entry,             \* text of the key Entry widget
    client,                \* self.client: None (FALSE) or True
    status_label,          \* text of self.status_label
    health_check,          \* ghost: the last GET /models made by _connect_client
    conversation_history,  \* self.conversation_history
    writers,               \* ghost: the thread that appended each message (0 = UI thread)
    threads,               \* the threads running _stream_response
    greeting_timer,        \* root.after(400, self._send_greeting) is pending
    ui_queue,              \* callbacks posted with root.after(0, ...), in post order
    chat_display,          \* items inserted into self.chat_display
    messagebox,            \* title of the last messagebox shown ("none" before any)
    breathing,             \* self.breathing
    breath_btn,            \* text of self.breath_btn
    breath_canvas,         \* what _draw_breath_circle drew last
    breath_threads         \* the threads running _run_breathing

conn_vars == <<openai_api_key, openrouter_api_key, api_provider, api_key, key_entry,
               client, status_label, health_check>>
chat_vars == <<conversation_history, writers, threads, greeting_timer, chat_display>>
breath_vars == <<breathing, breath_btn, breath_canvas, breath_threads>>
vars == <<conn_vars, chat_vars, breath_vars, ui_queue, messagebox>>

UI == 0
ThreadIds == 1 .. MaxThreads
BreathIds == 1 .. MaxBreathThreads

Message(role, content) == [role |-> role, content |-> content]

\* A thread slot no thread has been started in.
IdleThread ==
    [pc |-> "idle", kind |-> "none", messages |-> [ref |-> FALSE, lit |-> <<>>],
     request |-> [provider |-> "none", key |-> <<>>, messages |-> <<>>],
     full_text |-> <<>>, err |-> "", trace |-> <<>>, sent_at |-> <<>>]

\* Ticks of the breathing animation.
BOX_BREATHING_STEPS ==
    <<[label |-> "Inhale", duration |-> 4],
      [label |-> "Hold", duration |-> 4],
      [label |-> "Exhale", duration |-> 6],
      [label |-> "Hold", duration |-> 4]>>

\* A label without "(Ns)": "Ready" and "Done".
NoCountdown == -1

\* What _draw_breath_circle(label, scale) puts on the canvas; the scale is
\* the fraction scale[1] / scale[2].
Frame(name, secs, scale) == [name |-> name, secs |-> secs, scale |-> scale]

\* A slot no breathing thread has been started in. stopped, broke,
\* late_posts, late_draw, done_drawn and after_done are ghosts: a stop was
\* requested while the thread ran; the thread left a loop by a break;
\* the ticks it posted and whether a frame of it was drawn after that stop;
\* whether its "Done" frame was drawn; whether a countdown frame of a
\* thread started before it was drawn after its "Done" frame.
IdleBreath ==
    [pc |-> "idle", cycle |-> 0, phase |-> 1, i |-> 0, stopped |-> FALSE,
     broke |-> FALSE, late_posts |-> 0, late_draw |-> FALSE, done_drawn |-> FALSE,
     after_done |-> FALSE]

\* ------------------------------------------------------------- connecting

\* _update_key_entry: the stored key of the provider becomes api_key and
\* the content of the key entry.
StoredKey(p) == IF p = "OpenAI" THEN openai_api_key ELSE openrouter_api_key

\* The bearer key _connect_client sends for the provider.
HealthCheckKey(p, k) == IF p = "OpenAI" THEN HARDCODED_KEY ELSE k

\* _connect_client with the health check answering resp: the new client,
\* status label and the error dialog shown, if any.
ConnectClient(old_client, old_box, resp) ==
    IF resp = 200
    THEN [client |-> TRUE, status_label |-> "Connected", dialog |-> old_box]
    ELSE [client |-> old_client, status_label |-> "Error", dialog |-> "Connection Error"]

\* No health check has been made.
NoHealthCheck == [provider |-> "none", api_key |-> <<>>, bearer |-> <<>>, status |-> -1]

\* Ghost: _connect_client, run with the provider p selected and k in
\* self.api_key, sent its GET with HealthCheckKey(p, k) and got resp.
HealthCheck(p, k, resp) ==
    [provider |-> p, api_key |-> k, bearer |-> HealthCheckKey(p, k), status |-> resp]

\* The ConnectionState the program shows.
ConnectionState ==
    CASE status_label = "Not connected" -> "Disconnected"
      [] status_label = "Connected" -> "Connected"
      [] status_label = "Error" -> "Error"

Init ==
    /\ openai_api_key \in EnvKeys
    /\ openrouter_api_key \in EnvKeys
    /\ api_provider = "OpenRouter"
    /\ api_key = openrouter_api_key
    /\ key_entry = openrouter_api_key
    /\ conversation_history = <<>>
    /\ writers = <<>>
    /\ threads = [t \in ThreadIds |-> IdleThread]
    /\ ui_queue = <<>>
    /\ chat_display = <<>>
    /\ breathing = FALSE
    /\ breath_btn = "Start Breathing"
    /\ breath_canvas = Frame("Ready", NoCountdown, <<1, 1>>)
    /\ breath_threads = [w \in BreathIds |-> IdleBreath]
    /\ IF openai_api_key # <<>> \/ openrouter_api_key # <<>>
       THEN \E resp \in HealthResponses(HealthCheckKey("OpenRouter", openrouter_api_key)) :
              LET c == ConnectClient(FALSE, "none", resp) IN
              /\ client = c.client
              /\ status_label = c.status_label
              /\ messagebox = c.dialog
              /\ health_check = HealthCheck("OpenRouter", openrouter_api_key, resp)
              /\ greeting_timer = TRUE
       ELSE /\ client = FALSE
            /\ health_check = NoHealthCheck
            /\ status_label = "Not connected"
            /\ messagebox = "none"
            /\ greeting_timer = FALSE

\* --------------------------------------------------------------- messaging

IdleThreads == {t \in ThreadIds : threads[t].pc = "idle"}

\* The slot of the next threading.Thread(...).start().
NewThread == CHOOSE t \in IdleThreads : \A u \in IdleThreads : t <= u

\* threading.Thread(target=self._stream_response, args=(msgs,)).start();
\* sent_at is a ghost: the transcript when the thread is started.
StartThread(kind, msgs, hist) ==
    [threads EXCEPT ![NewThread] =
        [IdleThread EXCEPT !.pc = "start", !.kind = kind, !.messages = msgs,
                           !.sent_at = hist]]

\* The argument of _send_greeting's thread: a list of its own.
GreetingMessages == [ref |-> FALSE, lit |-> <<Message("user", <<"Hello">>)>>]

\* The argument of _send_message's thread: self.conversation_history itself.
HistoryMessages == [ref |-> TRUE, lit |-> <<>>]

\* The list a thread iterates when it reads its messages argument.
Deref(m) == IF m.ref THEN conversation_history ELSE m.lit

\* Mutant of InputText: the text of the input box is not trimmed.
InputText_untrimmed(raw) == raw

\* self.input_box.get("1.0", "end-1c").strip()
InputText(raw) == Strip(raw)

\* _on_provider_change with the menu set to p, then _update_key_entry.
OnProviderChange(p) ==
    /\ api_provider' = p
    /\ api_key' = StoredKey(p)
    /\ key_entry' = StoredKey(p)
    /\ UNCHANGED <<openai_api_key, openrouter_api_key, client, status_label,
                   health_check, chat_vars, breath_vars, ui_queue, messagebox>>

\* The user edits the key entry.
TypeKey(k) ==
    /\ key_entry # k
    /\ key_entry' = k
    /\ UNCHANGED <<openai_api_key, openrouter_api_key, api_provider, api_key, client,
                   status_label, health_check, chat_vars, breath_vars, ui_queue,
                   messagebox>>

\* _on_connect, with _connect_client and _send_greeting.
OnConnect ==
    LET key == Strip(key_entry) IN
    IF key = <<>>
    THEN /\ messagebox' = "Missing Key"
         /\ UNCHANGED <<conn_vars, chat_vars, breath_vars, ui_queue>>
    ELSE \E resp \in HealthResponses(HealthCheckKey(api_provider, key)) :
           LET c == ConnectClient(client, messagebox, resp) IN
           /\ api_key' = key
           /\ openai_api_key' = IF api_provider = "OpenAI" THEN key ELSE openai_api_key
           /\ openrouter_api_key' =
                  IF api_provider = "OpenAI" THEN openrouter_api_key ELSE key
           /\ client' = c.client
           /\ status_label' = c.status_label
           /\ messagebox' = c.dialog
           /\ health_check' = HealthCheck(api_provider, key, resp)
           /\ IF c.client /\ conversation_history = <<>>
              THEN /\ IdleThreads # {}
                   /\ threads' = StartThread("greeting", GreetingMessages,
                                             conversation_history)
              ELSE UNCHANGED threads
           /\ UNCHANGED <<api_provider, key_entry, conversation_history, writers,
                          greeting_timer, chat_display, breath_vars, ui_queue>>

\* Mutant of GreetingTimer: the greeting's "Hello" is recorded in the
\* transcript as a user message before the thread is started.
GreetingTimer_recorded ==
    /\ greeting_timer
    /\ IdleThreads # {}
    /\ greeting_timer' = FALSE
    /\ conversation_history' =
           Append(conversation_history, Message("user", <<"Hello">>))
    /\ writers' = Append(writers, UI)
    /\ threads' = StartThread("greeting", GreetingMessages, conversation_history')
    /\ UNCHANGED <<conn_vars, chat_display, breath_vars, ui_queue, messagebox>>

\* root.after(400, self._send_greeting) of __init__ fires: _send_greeting.
GreetingTimer ==
    /\ greeting_timer
    /\ IdleThreads # {}
    /\ greeting_timer' = FALSE
    /\ threads' = StartThread("greeting", GreetingMessages, conversation_history)
    /\ UNCHANGED <<conn_vars, conversation_history, writers, chat_display, breath_vars,
                   ui_queue, messagebox>>

\* _send_message with raw in the input box.
SendMessage(raw) ==
    IF ~client
    THEN /\ messagebox' = "Not Connected"
         /\ UNCHANGED <<conn_vars, chat_vars, breath_vars, ui_queue>>
    ELSE LET text == InputText(raw) IN
         IF text = <<>> \/ text = PLACEHOLDER
         THEN UNCHANGED vars
         ELSE /\ IdleThreads # {}
              /\ chat_display' = Append(chat_display,
                     [kind |-> "user", text |-> text, th |-> UI])
              /\ conversation_history' =
                     Append(conversation_history, Message("user", text))
              /\ writers' = Append(writers, UI)
              /\ threads' = StartThread("send", HistoryMessages, conversation_history')
              /\ UNCHANGED <<conn_vars, greeting_timer, breath_vars, ui_queue, messagebox>>

\* ------------------------------------------------- _stream_response steps

\* self.root.after(0, fn) called by thread t.
Post(q, fn, t, arg) == Append(q, [fn |-> fn, th |-> t, arg |-> arg])

\* The steps of a thread leave everything but these unchanged.
ThreadFrame == UNCHANGED <<conn_vars, greeting_timer, chat_display, breath_vars, messagebox>>

\* line 390: the thinking indicator is posted.
StreamStart(t) ==
    /\ threads[t].pc = "start"
    /\ ui_queue' = Post(ui_queue, "_show_thinking", t, <<>>)
    /\ threads' = [threads EXCEPT ![t].pc = "request"]
    /\ UNCHANGED <<conversation_history, writers>>
    /\ ThreadFrame

\* "for msg in messages: ..._messages.append({"role": msg["role"],
\* "content": msg["content"]})", started with acc.
RECURSIVE AppendMessages(_, _)
AppendMessages(acc, msgs) ==
    IF msgs = <<>> THEN acc
    ELSE AppendMessages(Append(acc, Message(Head(msgs).role, Head(msgs).content)),
                        Tail(msgs))

\* Mutant of RequestMessages: the array is not started with the system prompt.
RequestMessages_nosystem(m) == AppendMessages(<<>>, Deref(m))

\* The messages array of the request: the system prompt, then each message
\* of the list the thread was given, as it is when the thread reads it.
RequestMessages(m) == AppendMessages(<<Message("system", SYSTEM_PROMPT)>>, Deref(m))

\* str(e) of the exception a response raises.
ErrorText(resp) ==
    CASE resp.status = TransportError -> "ConnectionError"
      [] resp.status = 200 -> "KeyError: choices"
      [] resp.status = 401 -> "API Error: 401"
      [] OTHER -> "API Error: 500"

\* Whether a response ends the try block without an exception.
Succeeds(resp) == resp.status = 200 /\ resp.has_content

\* lines 392-451: the request is built from api_provider, api_key and the
\* messages, sent, and answered.
StreamRequest(t) ==
    /\ threads[t].pc = "request"
    /\ \E resp \in ApiResponses(api_key) :
         threads' = [threads EXCEPT
            ![t].request = [provider |-> api_provider, key |-> api_key,
                            messages |-> RequestMessages(threads[t].messages)],
            ![t].full_text = IF Succeeds(resp) THEN Strip(resp.content) ELSE <<>>,
            ![t].err = IF Succeeds(resp) THEN "" ELSE ErrorText(resp),
            ![t].pc = IF Succeeds(resp) THEN "ok_start" ELSE "err_hide"]
    /\ UNCHANGED <<conversation_history, writers, ui_queue>>
    /\ ThreadFrame

\* line 452
StreamPostStart(t) ==
    /\ threads[t].pc = "ok_start"
    /\ ui_queue' = Post(ui_queue, "_start_bot_message", t, <<"Solace">>)
    /\ threads' = [threads EXCEPT ![t].pc = "ok_chunk"]
    /\ UNCHANGED <<conversation_history, writers>>
    /\ ThreadFrame

\* Mutant of StreamPostChunk: the reply text is posted twice.
StreamPostChunk_twice(t) ==
    /\ threads[t].pc = "ok_chunk"
    /\ ui_queue' = Post(Post(ui_queue, "_append_chunk", t, threads[t].full_text),
                        "_append_chunk", t, threads[t].full_text)
    /\ threads' = [threads EXCEPT ![t].pc = "ok_append"]
    /\ UNCHANGED <<conversation_history, writers>>
    /\ ThreadFrame

\* line 453
StreamPostChunk(t) ==
    /\ threads[t].pc = "ok_chunk"
    /\ ui_queue' = Post(ui_queue, "_append_chunk", t, threads[t].full_text)
    /\ threads' = [threads EXCEPT ![t].pc = "ok_append"]
    /\ UNCHANGED <<conversation_history, writers>>
    /\ ThreadFrame

\* The thread that runs line 455 for worker t.
AppendingThread(t) == t

\* Mutant of StreamAppend: the reply takes the place of the last message
\* of the transcript.
StreamAppend_replacing(t) ==
    /\ threads[t].pc = "ok_append"
    /\ conversation_history' =
           Append(SubSeq(conversation_history, 1, Len(conversation_history) - 1),
                  Message("assistant", threads[t].full_text))
    /\ writers' = Append(SubSeq(writers, 1, Len(writers) - 1), AppendingThread(t))
    /\ threads' = [threads EXCEPT ![t].pc = "ok_finish",
                                  ![t].trace = Append(@, [ev |-> "append",
                                                          text |-> threads[t].full_text])]
    /\ UNCHANGED ui_queue
    /\ ThreadFrame

\* line 455: the reply is appended to the transcript.
StreamAppend(t) ==
    /\ threads[t].pc = "ok_append"
    /\ conversation_history' =
           Append(conversation_history, Message("assistant", threads[t].full_text))
    /\ writers' = Append(writers, AppendingThread(t))
    /\ threads' = [threads EXCEPT ![t].pc = "ok_finish",
                                  ![t].trace = Append(@, [ev |-> "append",
                                                          text |-> threads[t].full_text])]
    /\ UNCHANGED ui_queue
    /\ ThreadFrame

\* line 456
StreamPostFinish(t) ==
    /\ threads[t].pc = "ok_finish"
    /\ ui_queue' = Post(ui_queue, "_finish_bot_message", t, <<>>)
    /\ threads' = [threads EXCEPT ![t].pc = "done"]
    /\ UNCHANGED <<conversation_history, writers>>
    /\ ThreadFrame

\* line 459
StreamPostHide(t) ==
    /\ threads[t].pc = "err_hide"
    /\ ui_queue' = Post(ui_queue, "_hide_thinking", t, <<>>)
    /\ threads' = [threads EXCEPT ![t].pc = "err_msg"]
    /\ UNCHANGED <<conversation_history, writers>>
    /\ ThreadFrame

\* Mutant of StreamPostError: the failed turn is also recorded in the
\* transcript, as an assistant message holding the error.
StreamPostError_recorded(t) ==
    /\ threads[t].pc = "err_msg"
    /\ ui_queue' = Post(ui_queue, "_append_message", t,
                        <<"Something went wrong: ", threads[t].err>>)
    /\ conversation_history' =
           Append(conversation_history, Message("assistant", <<threads[t].err>>))
    /\ writers' = Append(writers, t)
    /\ threads' = [threads EXCEPT ![t].pc = "done"]
    /\ ThreadFrame

\* line 460
StreamPostError(t) ==
    /\ threads[t].pc = "err_msg"
    /\ ui_queue' = Post(ui_queue, "_append_message", t,
                        <<"Something went wrong: ", threads[t].err>>)
    /\ threads' = [threads EXCEPT ![t].pc = "done"]
    /\ UNCHANGED <<conversation_history, writers>>
    /\ ThreadFrame

\* ------------------------------------------- callbacks run by the UI thread

\* The UI thread takes the callback at the head of the queue.
Head_is(fn) == ui_queue # <<>> /\ Head(ui_queue).fn = fn

\* Ghost: the event is recorded in the trace of the request that posted it.
Traced(t, ev, text) ==
    [threads EXCEPT ![t].trace = Append(@, [ev |-> ev, text |-> text])]

CallbackFrame ==
    UNCHANGED <<conn_vars, conversation_history, writers, greeting_timer, messagebox>>

\* Positions of the thinking indicators in the chat display.
ThinkingAt == {i \in DOMAIN chat_display : chat_display[i].kind = "thinking"}

\* The chat display without its item i.
Without(d, i) == SubSeq(d, 1, i - 1) \o SubSeq(d, i + 1, Len(d))

\* _show_thinking
RunShowThinking ==
    /\ Head_is("_show_thinking")
    /\ LET cb == Head(ui_queue) IN
       /\ chat_display' = Append(chat_display,
              [kind |-> "thinking", text |-> <<"Solace is listening...">>, th |-> cb.th])
       /\ threads' = Traced(cb.th, "show", <<>>)
    /\ ui_queue' = Tail(ui_queue)
    /\ UNCHANGED breath_vars
    /\ CallbackFrame

\* _hide_thinking: the last indicator in the display, if any, is deleted.
RunHideThinking ==
    /\ Head_is("_hide_thinking")
    /\ LET cb == Head(ui_queue) IN
       IF ThinkingAt # {}
       THEN LET idx == CHOOSE i \in ThinkingAt : \A j \in ThinkingAt : j <= i IN
            /\ chat_display' = Without(chat_display, idx)
            /\ threads' = Traced(cb.th, "hide", <<"removed">>)
       ELSE /\ UNCHANGED chat_display
            /\ threads' = Traced(cb.th, "hide", <<>>)
    /\ ui_queue' = Tail(ui_queue)
    /\ UNCHANGED breath_vars
    /\ CallbackFrame

\* _start_bot_message
RunStartBotMessage ==
    /\ Head_is("_start_bot_message")
    /\ LET cb == Head(ui_queue) IN
       /\ chat_display' = Append(chat_display,
              [kind |-> "bot_name", text |-> cb.arg, th |-> cb.th])
       /\ threads' = Traced(cb.th, "bot_name", cb.arg)
    /\ ui_queue' = Tail(ui_queue)
    /\ UNCHANGED breath_vars
    /\ CallbackFrame

\* _append_chunk
RunAppendChunk ==
    /\ Head_is("_append_chunk")
    /\ LET cb == Head(ui_queue) IN
       /\ chat_display' = Append(chat_display,
              [kind |-> "bot_msg", text |-> cb.arg, th |-> cb.th])
       /\ threads' = Traced(cb.th, "bot_msg", cb.arg)
    /\ ui_queue' = Tail(ui_queue)
    /\ UNCHANGED breath_vars
    /\ CallbackFrame

\* _finish_bot_message
RunFinishBotMessage ==
    /\ Head_is("_finish_bot_message")
    /\ LET cb == Head(ui_queue) IN
       /\ chat_display' = Append(chat_display,
              [kind |-> "spacing", text |-> <<"\n">>, th |-> cb.th])
       /\ threads' = Traced(cb.th, "finish", <<>>)
    /\ ui_queue' = Tail(ui_queue)
    /\ UNCHANGED breath_vars
    /\ CallbackFrame

\* _append_message("bot", "Solace", "Something went wrong: ...")
RunAppendMessage ==
    /\ Head_is("_append_message")
    /\ LET cb == Head(ui_queue) IN
       /\ chat_display' = Append(chat_display,
              [kind |-> "error", text |-> cb.arg, th |-> cb.th])
       /\ threads' = Traced(cb.th, "error", cb.arg)
    /\ ui_queue' = Tail(ui_queue)
    /\ UNCHANGED breath_vars
    /\ CallbackFrame

NextChat ==
    \/ GreetingTimer
    \/ \E raw \in Inputs : SendMessage(raw)
    \/ \E t \in ThreadIds :
         \/ StreamStart(t)
         \/ StreamRequest(t)
         \/ StreamPostStart(t)
         \/ StreamPostChunk(t)
         \/ StreamAppend(t)
         \/ StreamPostFinish(t)
         \/ StreamPostHide(t)
         \/ StreamPostError(t)
    \/ RunShowThinking
    \/ RunHideThinking
    \/ RunStartBotMessage
    \/ RunAppendChunk
    \/ RunFinishBotMessage
    \/ RunAppendMessage

SpecChat == Init /\ [][NextChat]_vars

\* A step of the thread running _stream_response in slot t.
ThreadStep(t) ==
    \/ StreamStart(t)
    \/ StreamRequest(t)
    \/ StreamPostStart(t)
    \/ StreamPostChunk(t)
    \/ StreamAppend(t)
    \/ StreamPostFinish(t)
    \/ StreamPostHide(t)
    \/ StreamPostError(t)

\* The Tk main loop runs the callback at the head of the queue.
RunCallback ==
    \/ RunShowThinking
    \/ RunHideThinking
    \/ RunStartBotMessage
    \/ RunAppendChunk
    \/ RunFinishBotMessage
    \/ RunAppendMessage

\* Every started thread keeps running, its provider call returns or
\* raises, and root.mainloop() keeps taking the callbacks posted.
SpecChatFair ==
    /\ SpecChat
    /\ \A t \in ThreadIds : WF_vars(ThreadStep(t))
    /\ WF_vars(RunCallback)

\* The UI handlers of the connection and of send, with no thread scheduled.
NextConn ==
    \/ \E p \in Providers : OnProviderChange(p)
    \/ \E k \in KeyInputs : TypeKey(k)
    \/ OnConnect
    \/ GreetingTimer
    \/ \E raw \in Inputs : SendMessage(raw)

SpecConn == Init /\ [][NextConn]_vars

\* The handlers that start requests or change what they read, and the
\* threads that make them; the display callbacks the threads post stay in
\* the queue.
NextRequest ==
    \/ \E p \in Providers : OnProviderChange(p)
    \/ GreetingTimer
    \/ \E raw \in Inputs : SendMessage(raw)
    \/ \E t \in ThreadIds :
         \/ StreamStart(t)
         \/ StreamRequest(t)
         \/ StreamPostStart(t)
         \/ StreamPostChunk(t)
         \/ StreamAppend(t)
         \/ StreamPostFinish(t)
         \/ StreamPostHide(t)
         \/ StreamPostError(t)

SpecRequest == Init /\ [][NextRequest]_vars

\* Connect requests, the greeting scheduled at startup, sends, and the
\* threads they start; the display callbacks the threads post stay in the
\* queue.
NextGreeting ==
    \/ OnConnect
    \/ GreetingTimer
    \/ \E raw \in Inputs : SendMessage(raw)
    \/ \E t \in ThreadIds : ThreadStep(t)

SpecGreeting == Init /\ [][NextGreeting]_vars

\* ---------------------------------------------------------- box breathing

IdleBreaths == {w \in BreathIds : breath_threads[w].pc = "idle"}

RunningBreaths == {w \in BreathIds : breath_threads[w].pc \notin {"idle", "exit"}}

\* Callbacks of a thread that are still in the Tk queue.
Pending(t, fn) ==
    Cardinality({k \in DOMAIN ui_queue : ui_queue[k].th = t /\ ui_queue[k].fn = fn})

\* _toggle_breathing
ToggleBreathing ==
    /\ IF breathing
       THEN /\ breathing' = FALSE
            /\ breath_btn' = "Start Breathing"
            /\ breath_canvas' = Frame("Ready", NoCountdown, <<1, 1>>)
            /\ breath_threads' =
                   [w \in BreathIds |->
                       IF w \in RunningBreaths
                       THEN [breath_threads[w] EXCEPT !.stopped = TRUE]
                       ELSE breath_threads[w]]
       ELSE /\ IdleBreaths # {}
            /\ breathing' = TRUE
            /\ breath_btn' = "Stop"
            /\ breath_threads' =
                   [breath_threads EXCEPT
                       ![CHOOSE w \in IdleBreaths : \A u \in IdleBreaths : w <= u] =
                           [IdleBreath EXCEPT !.pc = "cycle_check"]]
            /\ UNCHANGED breath_canvas
    /\ UNCHANGED <<conn_vars, chat_vars, ui_queue, messagebox>>

BreathFrame == UNCHANGED <<conn_vars, chat_vars, breath_btn, breath_canvas, messagebox>>

\* "for cycle in range(4)" is exhausted at NumCycles.
CyclesLeft(w) == breath_threads[w].cycle < NumCycles

\* lines 524-526: the next cycle, unless the cycles are exhausted or the
\* flag is down.
BreathCycleCheck(w) ==
    /\ breath_threads[w].pc = "cycle_check"
    /\ breath_threads' =
           [breath_threads EXCEPT ![w] =
               IF ~CyclesLeft(w) THEN [@ EXCEPT !.pc = "final_check"]
               ELSE IF ~breathing THEN [@ EXCEPT !.pc = "final_check", !.broke = TRUE]
               ELSE [@ EXCEPT !.pc = "phase_check", !.phase = 1]]
    /\ UNCHANGED <<breathing, ui_queue>>
    /\ BreathFrame

\* lines 527-529: the next phase of the cycle; a break, or the end of the
\* phases, leads to the next cycle.
BreathPhaseCheck(w) ==
    /\ breath_threads[w].pc = "phase_check"
    /\ breath_threads' =
           [breath_threads EXCEPT ![w] =
               IF @.phase > Len(BOX_BREATHING_STEPS)
               THEN [@ EXCEPT !.pc = "cycle_check", !.cycle = @ + 1]
               ELSE IF ~breathing
               THEN [@ EXCEPT !.pc = "cycle_check", !.cycle = @ + 1, !.broke = TRUE]
               ELSE [@ EXCEPT !.pc = "tick_check", !.i = 0]]
    /\ UNCHANGED <<breathing, ui_queue>>
    /\ BreathFrame

\* lines 534-536: the next tick of the phase, i in range(steps + 1); a
\* break, or the end of the ticks, leads to the next phase.
BreathTickCheck(w) ==
    /\ breath_threads[w].pc = "tick_check"
    /\ breath_threads' =
           [breath_threads EXCEPT ![w] =
               IF @.i > steps
               THEN [@ EXCEPT !.pc = "phase_check", !.phase = @ + 1]
               ELSE IF ~breathing
               THEN [@ EXCEPT !.pc = "phase_check", !.phase = @ + 1, !.broke = TRUE]
               ELSE [@ EXCEPT !.pc = "post"]]
    /\ UNCHANGED <<breathing, ui_queue>>
    /\ BreathFrame

\* end_scale, in hundredths
EndScale(label) == IF label \in {"Inhale", "Hold"} THEN 135 ELSE 100

\* line 537: scale = 1.0 + (end_scale - 1.0) * (i / steps), as a fraction
TickScale(label, i) == <<100 * steps + (EndScale(label) - 100) * i, 100 * steps>>

\* line 538: the seconds in the label, duration - int(i * duration / steps)
TickSeconds(duration, i) == duration - ((i * duration) \div steps)

\* lines 537-540: the frame of tick i is posted, and the thread sleeps.
BreathPost(w) ==
    /\ breath_threads[w].pc = "post"
    /\ Pending(w, "_draw_breath_circle") < MaxPending
    /\ LET bt == breath_threads[w]
           step == BOX_BREATHING_STEPS[bt.phase]
       IN
       /\ ui_queue' = Post(ui_queue, "_draw_breath_circle", w,
              Frame(step.label, TickSeconds(step.duration, bt.i),
                    TickScale(step.label, bt.i)))
       /\ breath_threads' =
              [breath_threads EXCEPT ![w] =
                  [@ EXCEPT !.pc = "tick_check", !.i = @ + 1,
                            !.late_posts = IF bt.stopped /\ @ < 2 THEN @ + 1 ELSE @]]
    /\ UNCHANGED breathing
    /\ BreathFrame

\* line 541
BreathFinalCheck(w) ==
    /\ breath_threads[w].pc = "final_check"
    /\ breath_threads' =
           [breath_threads EXCEPT ![w].pc = IF breathing THEN "set_false" ELSE "exit"]
    /\ UNCHANGED <<breathing, ui_queue>>
    /\ BreathFrame

\* line 542
BreathSetFalse(w) ==
    /\ breath_threads[w].pc = "set_false"
    /\ breathing' = FALSE
    /\ breath_threads' = [breath_threads EXCEPT ![w].pc = "post_btn"]
    /\ UNCHANGED ui_queue
    /\ BreathFrame

\* line 543
BreathPostBtn(w) ==
    /\ breath_threads[w].pc = "post_btn"
    /\ ui_queue' = Post(ui_queue, "breath_btn.configure", w, <<"Start Breathing">>)
    /\ breath_threads' = [breath_threads EXCEPT ![w].pc = "post_done"]
    /\ UNCHANGED breathing
    /\ BreathFrame

\* line 544
BreathPostDone(w) ==
    /\ breath_threads[w].pc = "post_done"
    /\ ui_queue' = Post(ui_queue, "_draw_breath_circle", w,
                        Frame("Done", NoCountdown, <<1, 1>>))
    /\ breath_threads' = [breath_threads EXCEPT ![w].pc = "exit"]
    /\ UNCHANGED breathing
    /\ BreathFrame

\* _draw_breath_circle, run from the queue
RunDrawBreathCircle ==
    /\ Head_is("_draw_breath_circle")
    /\ LET cb == Head(ui_queue) IN
       /\ breath_canvas' = cb.arg
       /\ breath_threads' =
              [w \in BreathIds |->
                  IF w = cb.th
                  THEN [breath_threads[w] EXCEPT
                           !.late_draw = @ \/ breath_threads[w].stopped,
                           !.done_drawn = @ \/ cb.arg.name = "Done"]
                  ELSE [breath_threads[w] EXCEPT
                           !.after_done = @ \/ (/\ w > cb.th
                                                /\ breath_threads[w].done_drawn
                                                /\ cb.arg.secs # NoCountdown)]]
    /\ ui_queue' = Tail(ui_queue)
    /\ UNCHANGED <<conn_vars, chat_vars, breathing, breath_btn, messagebox>>

\* self.breath_btn.configure(text="Start Breathing"), run from the queue
RunBreathBtn ==
    /\ Head_is("breath_btn.configure")
    /\ breath_btn' = Head(ui_queue).arg[1]
    /\ ui_queue' = Tail(ui_queue)
    /\ UNCHANGED <<conn_vars, chat_vars, breathing, breath_canvas, breath_threads,
                   messagebox>>

NextBreath ==
    \/ ToggleBreathing
    \/ \E w \in BreathIds :
         \/ BreathCycleCheck(w)
         \/ BreathPhaseCheck(w)
         \/ BreathTickCheck(w)
         \/ BreathPost(w)
         \/ BreathFinalCheck(w)
         \/ BreathSetFalse(w)
         \/ BreathPostBtn(w)
         \/ BreathPostDone(w)
    \/ RunDrawBreathCircle
    \/ RunBreathBtn

\* Breathing does not read the connection: the program is started with no
\* key in the environment.
InitBreath == Init /\ openai_api_key = <<>> /\ openrouter_api_key = <<>>

SpecBreath == InitBreath /\ [][NextBreath]_vars

\* Requests, breathing sessions and connect requests in one run: the
\* program is started without OPENAI_API_KEY, and a run starts at most
\* StoreThreads requests and StoreBreaths breathing sessions.
StoreBound ==
    /\ \A t \in ThreadIds : t > StoreThreads => threads[t].pc = "idle"
    /\ \A w \in BreathIds : w > StoreBreaths => breath_threads[w].pc = "idle"

InitStore == Init /\ openai_api_key = <<>>

\* The handlers that start a thread are taken while the bound allows it.
NextStore ==
    \/ OnConnect /\ StoreBound'
    \/ GreetingTimer /\ StoreBound'
    \/ \E raw \in Inputs : SendMessage(raw) /\ StoreBound'
    \/ ToggleBreathing /\ StoreBound'
    \/ \E t \in ThreadIds :
         \/ StreamStart(t)
         \/ StreamRequest(t)
         \/ StreamPostStart(t)
         \/ StreamPostChunk(t)
         \/ StreamAppend(t)
         \/ StreamPostFinish(t)
         \/ StreamPostHide(t)
         \/ StreamPostError(t)
    \/ \E w \in BreathIds :
         \/ BreathCycleCheck(w)
         \/ BreathPhaseCheck(w)
         \/ BreathTickCheck(w)
         \/ BreathPost(w)
         \/ BreathFinalCheck(w)
         \/ BreathSetFalse(w)
         \/ BreathPostBtn(w)
         \/ BreathPostDone(w)
    \/ RunShowThinking
    \/ RunHideThinking
    \/ RunStartBotMessage
    \/ RunAppendChunk
    \/ RunFinishBotMessage
    \/ RunAppendMessage
    \/ RunDrawBreathCircle
    \/ RunBreathBtn

SpecStore == InitStore /\ [][NextStore]_vars

Next == NextConn \/ NextChat \/ NextBreath

Spec == Init /\ [][Next]_vars

\* ------------------------------------------------------------------ claims

ChatCallbacks ==
    {"_show_thinking", "_hide_thinking", "_start_bot_message", "_append_chunk",
     "_finish_bot_message", "_append_message"}

\* The request of thread t is over: the thread has ended and the UI thread
\* has run every callback it posted.
Completed(t) ==
    /\ threads[t].pc = "done"
    /\ \A k \in DOMAIN ui_queue :
         ~(ui_queue[k].th = t /\ ui_queue[k].fn \in ChatCallbacks)

\* Positions of the events named ev in a trace.
EventsAt(tr, ev) == {k \in DOMAIN tr : tr[k].ev = ev}

IsPrefix(a, b) == Len(a) <= Len(b) /\ a = SubSeq(b, 1, Len(a))

\* C1: every message of the transcript was appended by the UI thread; no
\* thread running _stream_response appends to conversation_history.
C1_SingleWriter == \A k \in DOMAIN writers : writers[k] = UI

\* C2: the messages a send's worker puts in its request, after the system
\* prompt, are the transcript as it stood when the send started the worker.
C2_SnapshotIsolation ==
    \A t \in ThreadIds :
        (threads[t].kind = "send" /\ threads[t].request.provider # "none")
            => Tail(threads[t].request.messages) = threads[t].sent_at

\* C3: a request that succeeded had, in this order, its thinking indicator
\* shown, the indicator hidden, the reply rendered with the returned text,
\* and then one assistant message with that text appended.
C3_SuccessOrder ==
    \A t \in ThreadIds :
        (Completed(t) /\ threads[t].err = "") =>
            LET tr == threads[t].trace IN
            \E a, b, c, d \in DOMAIN tr :
                /\ a < b /\ b < c /\ c < d
                /\ EventsAt(tr, "show") = {a}
                /\ EventsAt(tr, "hide") = {b}
                /\ EventsAt(tr, "bot_msg") = {c}
                /\ EventsAt(tr, "append") = {d}
                /\ tr[c].text = threads[t].full_text
                /\ tr[d].text = threads[t].full_text

\* What an accepted send of raw does: one user message with the trimmed
\* text is appended by the UI thread, and one worker is started on a
\* transcript that already holds it.
SendEffect(raw) ==
    /\ conversation_history' =
           Append(conversation_history, Message("user", Strip(raw)))
    /\ writers' = Append(writers, UI)
    /\ \E t \in ThreadIds :
         /\ threads[t].pc = "idle"
         /\ threads'[t].pc = "start"
         /\ threads'[t].kind = "send"
         /\ threads'[t].sent_at = conversation_history'
         /\ \A u \in ThreadIds \ {t} : threads'[u] = threads[u]

\* C4 as stated: while Connected every input that is non-empty after
\* trimming is accepted by send, which appends one user message with that
\* text before it starts the worker.
C4_SendAppendsAnyText ==
    \A raw \in Inputs :
        (ConnectionState = "Connected" /\ IdleThreads # {} /\ Strip(raw) # <<>>)
            => ENABLED (SendMessage(raw) /\ SendEffect(raw))

\* C4, amended: while Connected every input whose trimmed text is neither
\* empty nor the placeholder of the input box is accepted by send, and
\* every such send appends exactly one user message with the trimmed text
\* before it starts the worker; the request a send's worker builds holds
\* the transcript of its send, that user message included.
C4_SendAppends ==
    /\ \A raw \in Inputs :
          (/\ ConnectionState = "Connected"
           /\ IdleThreads # {}
           /\ Strip(raw) \notin {<<>>, PLACEHOLDER})
              => /\ ENABLED (SendMessage(raw) /\ SendEffect(raw))
                 /\ ~ENABLED (SendMessage(raw) /\ ~SendEffect(raw))
    /\ \A t \in ThreadIds :
          threads[t].kind = "send" =>
              /\ threads[t].sent_at # <<>>
              /\ threads[t].sent_at[Len(threads[t].sent_at)].role = "user"
              /\ threads[t].request.provider # "none" =>
                     IsPrefix(threads[t].sent_at, Tail(threads[t].request.messages))

\* C4 witness: a worker started by a send of text with surrounding
\* whitespace, on a transcript that ends with the trimmed text, has built
\* its request, while another send can still be made.
C4_Witness ==
    /\ ConnectionState = "Connected"
    /\ IdleThreads # {}
    /\ \E t \in ThreadIds :
         /\ threads[t].kind = "send"
         /\ threads[t].request.provider # "none"
         /\ threads[t].sent_at # <<>>
         /\ threads[t].sent_at[Len(threads[t].sent_at)] = Message("user", <<"hi">>)

\* C5: a send made while the connection state is not Connected reports
\* "Not Connected" and changes nothing else: no message, no worker.
C5_SendRequiresConnected ==
    [][\A raw \in Inputs :
          (ConnectionState # "Connected" /\ SendMessage(raw))
              => (messagebox' = "Not Connected"
                  /\ UNCHANGED <<conn_vars, chat_vars, breath_vars, ui_queue>>)]_vars

\* C6: once a connect attempt has failed (the state is Error), no send is
\* accepted.
C6_ErrorAcceptsNoSend ==
    ConnectionState = "Error" =>
        \A raw \in Inputs :
            ~ENABLED (SendMessage(raw) /\ conversation_history' # conversation_history)

\* The events of a request whose provider call failed with err.
FailureTrace(err) ==
    <<[ev |-> "show", text |-> <<>>],
      [ev |-> "hide", text |-> <<"removed">>],
      [ev |-> "error", text |-> <<"Something went wrong: ", err>>]>>

\* C7: a request whose provider call failed has its thinking indicator
\* shown and then removed, then one error message rendered, and nothing
\* else: it appends no message to the transcript.
C7_FailureOutcome ==
    \A t \in ThreadIds :
        threads[t].err # "" =>
            /\ IsPrefix(threads[t].trace, FailureTrace(threads[t].err))
            /\ Completed(t) => threads[t].trace = FailureTrace(threads[t].err)
            /\ \A k \in DOMAIN writers : writers[k] # t
            /\ (Completed(t) /\ \A u \in ThreadIds \ {t} : threads[u].pc = "idle")
                   => conversation_history = threads[t].sent_at

\* C7 witness: a send got status 500 and its request is over while the
\* other request of the run got a reply.
C7_Witness ==
    \E t, u \in ThreadIds :
        /\ threads[t].kind = "send"
        /\ threads[t].err = "API Error: 500"
        /\ Completed(t)
        /\ Completed(u)
        /\ threads[u].err = ""

\* C8: at most one breathing thread is running.
C8_SingleBreathWorker == Cardinality(RunningBreaths) <= 1

\* C9: a breathing thread that was asked to stop posts at most one more
\* tick, and none of its frames is drawn after the "Ready" of that stop.
C9_StopIsTerminal ==
    \A w \in BreathIds :
        breath_threads[w].stopped =>
            /\ breath_threads[w].late_posts <= 1
            /\ ~breath_threads[w].late_draw

\* C10: a session that ran all its cycles without a stop request has its
\* "Done" frame drawn, with no countdown frame drawn after it; a session
\* that left a loop by a break (the flag was down) never has "Done" drawn.
C10_DoneOnlyOnCompletion ==
    \A w \in BreathIds :
        LET bt == breath_threads[w] IN
        /\ (/\ bt.pc = "exit" /\ ~bt.broke /\ ~bt.stopped
            /\ Pending(w, "_draw_breath_circle") = 0) => bt.done_drawn
        /\ bt.done_drawn => ~bt.after_done
        /\ bt.broke => ~bt.done_drawn

\* C11: while the state is Connected, a change of the provider selection
\* leaves the provider and the key used for requests as they are, and
\* every completion request is built with the provider and the key of the
\* health check that connected.
C11_ConfigFixedWhileConnected ==
    [][ConnectionState = "Connected" =>
          /\ \A p \in Providers :
                OnProviderChange(p) => UNCHANGED <<api_provider, api_key>>
          /\ \A t \in ThreadIds :
                StreamRequest(t) =>
                    /\ threads'[t].request.provider = health_check.provider
                    /\ threads'[t].request.key = health_check.api_key]_vars

\* C14: the messages array of every completion request, of either
\* provider, has one entry more than the list the thread reads: the system
\* prompt first, then the messages of the list in order, role and content
\* unchanged.
C14_RequestSerialization ==
    [][\A t \in ThreadIds :
          StreamRequest(t) =>
              LET transcript == Deref(threads[t].messages)
                  sent == threads'[t].request.messages
              IN
              /\ Len(sent) = Len(transcript) + 1
              /\ sent[1] = Message("system", SYSTEM_PROMPT)
              /\ \A k \in 1 .. Len(transcript) :
                    /\ sent[k + 1].role = transcript[k].role
                    /\ sent[k + 1].content = transcript[k].content]_vars

\* C14 witness: requests were built for both providers, one of them from a
\* transcript of three messages that holds a user and an assistant message.
C14_Witness ==
    \E t, u \in ThreadIds :
        /\ threads[t].request.provider = "OpenAI"
        /\ threads[u].request.provider = "OpenRouter"
        /\ \E v \in {t, u} :
              LET sent == threads[v].request.messages IN
              /\ Len(sent) = 4
              /\ sent[2].role = "user"
              /\ sent[3].role = "assistant"

\* C12: the state is Connected only after a health check that sent the key
\* the user supplied for the selected provider and got status 200; with a
\* key the provider does not accept in the entry, for either provider, a
\* connect request cannot end Connected.
C12_ConnectedByUserKey ==
    /\ ConnectionState = "Connected" =>
           /\ health_check.status = 200
           /\ health_check.bearer = health_check.api_key
    /\ (Strip(key_entry) # <<>> /\ ~ValidKey(Strip(key_entry))) =>
           ~ENABLED (OnConnect /\ status_label' = "Connected")

\* C15: a connect request with an empty key shows "Missing Key" and
\* changes nothing else, and every health check made, the one of the
\* automatic connect at startup included, was made with a non-empty key.
C15_NoConnectWithEmptyKey ==
    /\ Strip(key_entry) = <<>> =>
           ~ENABLED (OnConnect /\ ~(/\ messagebox' = "Missing Key"
                                    /\ UNCHANGED <<conn_vars, chat_vars, breath_vars,
                                                   ui_queue>>))
    /\ health_check # NoHealthCheck => health_check.api_key # <<>>

\* C20: every thread running _stream_response, started by a send, by the
\* greeting of a connect request or by the greeting scheduled at startup,
\* is started in a state that is Connected.
C20_RequestsOnlyWhileConnected ==
    [][(\E t \in ThreadIds : threads[t].pc = "idle" /\ threads'[t].pc = "start")
           => (status_label' = "Connected")]_vars

\* Positions of the transcript whose message was appended for request t.
AppendedBy(t) == {k \in DOMAIN writers : writers[k] = t}

\* Positions of the transcript that hold a message of the role.
WithRole(role) == {k \in DOMAIN conversation_history : conversation_history[k].role = role}

\* C13: a greeting adds nothing to the transcript but, once its provider
\* call has succeeded, one assistant message holding the reply; a greeting
\* whose call failed adds nothing. The user messages of the transcript
\* are those of the sends, one each, and none is the greeting's "Hello".
C13_GreetingNotRecorded ==
    /\ \A t \in ThreadIds :
          threads[t].kind = "greeting" =>
              /\ \A k \in AppendedBy(t) :
                    conversation_history[k] = Message("assistant", threads[t].full_text)
              /\ Cardinality(AppendedBy(t)) =
                     IF threads[t].err = "" /\ threads[t].pc \in {"ok_finish", "done"}
                     THEN 1 ELSE 0
    /\ Cardinality(WithRole("user")) =
           Cardinality({t \in ThreadIds : threads[t].kind = "send"})
    /\ \A k \in WithRole("user") : conversation_history[k].content # <<"Hello">>
    /\ Len(conversation_history) =
           Cardinality(WithRole("user")) + Cardinality(WithRole("assistant"))

\* C13 witness: a greeting got its reply and is over, with its reply as
\* the first message of the transcript, and a send was made after it.
C13_Witness ==
    \E t, u \in ThreadIds :
        /\ threads[t].kind = "greeting"
        /\ threads[t].err = ""
        /\ Completed(t)
        /\ AppendedBy(t) = {1}
        /\ threads[u].kind = "send"
        /\ Completed(u)

\* C16: every step leaves the transcript as it is or appends to it: the
\* transcript before the step is a prefix of the transcript after it, so
\* no message is ever removed, replaced or reordered; the steps of
\* breathing (start, stop, the thread's ticks, its frames) leave it as it is.
C16_AppendOnly ==
    [][/\ IsPrefix(conversation_history, conversation_history')
       /\ IsPrefix(writers, writers')
       /\ NextBreath => UNCHANGED <<conversation_history, writers>>]_vars

\* C16 witness: after a send and its reply the transcript holds two
\* messages, a connect request has failed, and a breathing session has run
\* to its "Done" frame.
C16_Witness ==
    /\ Len(conversation_history) = 2
    /\ \E t \in ThreadIds : Completed(t)
    /\ ConnectionState = "Error"
    /\ \E w \in BreathIds : breath_threads[w].done_drawn

\* Text made of blanks, newlines and tabs only, the empty text included.
Blank(raw) == \A k \in DOMAIN raw : raw[k] = " " \/ raw[k] = "\n" \/ raw[k] = "\t"

\* C17: while Connected, a send of text that is empty after trimming can
\* be made and changes nothing: no message, nothing rendered or posted, no
\* thread started, no dialog.
C17_BlankSendIsNoOp ==
    \A raw \in Inputs :
        (ConnectionState = "Connected" /\ Blank(raw)) =>
            /\ ENABLED SendMessage(raw)
            /\ ~ENABLED (SendMessage(raw) /\ ~UNCHANGED vars)

\* C17 witness: Connected, with a request over and its messages in the
\* transcript and the display, and room for the thread of another send.
C17_Witness ==
    /\ ConnectionState = "Connected"
    /\ IdleThreads # {}
    /\ conversation_history # <<>>
    /\ chat_display # <<>>
    /\ ui_queue = <<>>
    /\ \E t \in ThreadIds : threads[t].kind = "send" /\ Completed(t)

\* Positions of the chat display that hold the reply text of request t.
RenderedAt(t) ==
    {i \in DOMAIN chat_display : chat_display[i].kind = "bot_msg" /\ chat_display[i].th = t}

\* C18: of two sends whose provider calls both succeeded, the one whose
\* reply is rendered first is the one whose assistant message is appended
\* to the transcript first.
C18_AppendOrderIsRenderOrder ==
    \A t, u \in ThreadIds :
        (/\ t # u
         /\ threads[t].kind = "send" /\ threads[u].kind = "send"
         /\ threads[t].err = "" /\ threads[u].err = ""
         /\ Completed(t) /\ Completed(u))
            => \A a \in AppendedBy(t), b \in AppendedBy(u), i \in RenderedAt(t),
                  j \in RenderedAt(u) : (a < b) <=> (i < j)

\* Ticks the thread has posted, each followed by its sleep, in the phase
\* it is in or has just left: the loop index after the last post.
TicksPosted(w) == breath_threads[w].i

\* C19: a phase posts no more than steps ticks (30 in the source, each
\* followed by a sleep of duration / steps), so that the sleeps of a
\* phase, counted in units of 1 / steps second, never exceed its duration.
C19_TicksPerPhase ==
    \A w \in BreathIds :
        /\ TicksPosted(w) <= steps
        /\ \A p \in DOMAIN BOX_BREATHING_STEPS :
              (breath_threads[w].pc \in {"tick_check", "post"} /\ breath_threads[w].phase = p)
                  => TicksPosted(w) * BOX_BREATHING_STEPS[p].duration
                         <= steps * BOX_BREATHING_STEPS[p].duration

\* What request t has produced so far: the renderings of its reply, the
\* renderings of its error message, the messages appended for it.
Replies(t) == EventsAt(threads[t].trace, "bot_msg")
Errors(t) == EventsAt(threads[t].trace, "error")

\* The request ended with its reply: rendered once and appended once.
ReplyOutcome(t) ==
    /\ Cardinality(Replies(t)) = 1
    /\ Cardinality(AppendedBy(t)) = 1
    /\ Errors(t) = {}
    /\ \A k \in AppendedBy(t) :
          conversation_history[k] = Message("assistant", threads[t].full_text)

\* The request ended with an error: rendered once, nothing appended.
ErrorOutcome(t) ==
    /\ Cardinality(Errors(t)) = 1
    /\ Replies(t) = {}
    /\ AppendedBy(t) = {}

\* At no point has a request a second reply, a second error message, a
\* second appended message, or a reply or an appended message next to an
\* error; once it is over it has one of the two outcomes.
OneOutcome ==
    \A t \in ThreadIds :
        /\ Cardinality(Replies(t)) <= 1
        /\ Cardinality(Errors(t)) <= 1
        /\ Cardinality(AppendedBy(t)) <= 1
        /\ threads[t].err # "" => (Replies(t) = {} /\ AppendedBy(t) = {})
        /\ threads[t].err = "" => Errors(t) = {}
        /\ Completed(t) => (ReplyOutcome(t) \/ ErrorOutcome(t))

\* C21: every started request (send or greeting) comes to its end with
\* one outcome, either its reply rendered once and appended once or one
\* error message rendered and nothing appended, never both and never more
\* than one of either; the request it built is never built again.
C21_ExactlyOneOutcome ==
    /\ []OneOutcome
    /\ [][\A t \in ThreadIds :
             threads[t].request.provider # "none"
                 => threads'[t].request = threads[t].request]_vars
    /\ \A t \in ThreadIds : (threads[t].pc # "idle") ~> Completed(t)

\* C21 witness: of the two requests of a run, both over, the greeting
\* ended with an error message and the send with its reply.
C21_Witness ==
    \E t, u \in ThreadIds :
        /\ threads[t].kind = "greeting" /\ Completed(t) /\ ErrorOutcome(t)
        /\ threads[u].kind = "send" /\ Completed(u) /\ ReplyOutcome(u)

\* The greeting requests issued so far.
GreetingThreads == {t \in ThreadIds : threads[t].kind = "greeting"}

\* Positions of the transcript that hold an assistant message with no user
\* message right before it.
Unprompted ==
    {k \in WithRole("assistant") : k = 1 \/ conversation_history[k - 1].role # "user"}

\* C22: at most one greeting request is issued, and the transcript holds
\* at most one assistant message that no user message precedes, which is
\* then its first message.
C22_GreetingUnique ==
    /\ Cardinality(GreetingThreads) <= 1
    /\ Unprompted \subseteq {1}

\* The items _start_bot_message, _append_chunk and _finish_bot_message
\* insert for a reply.
ReplyItems == {"bot_name", "bot_msg", "spacing"}

\* C23: between two items of the reply of one request, the chat display
\* holds no item rendered by a callback of another request (its thinking
\* indicator, header, text or error message).
C23_ReplyContiguous ==
    \A i, j \in DOMAIN chat_display :
        (/\ i < j
         /\ chat_display[i].th \in ThreadIds
         /\ chat_display[j].th = chat_display[i].th
         /\ chat_display[i].kind \in ReplyItems
         /\ chat_display[j].kind \in ReplyItems)
            => \A k \in i + 1 .. j - 1 : chat_display[k].th \in {chat_display[i].th, UI}

====
